---- MODULE Spec2Model ----
(***************************************************************************)
(* Paginated and searchable user listing: the record store (lib/db), the   *)
(* listing query getUsers, the index page that parses the URL query into a *)
(* getUsers call, and the server actions that delete / add a user and      *)
(* revalidate the listing path.                                            *)
(*                                                                         *)
(* Strings are sequences of one-character strings.  The users table is a   *)
(* sequence of rows in store-natural (insertion) order; a SELECT without   *)
(* ORDER BY is taken to return rows in that order.                         *)
(***************************************************************************)
EXTENDS Integers, Sequences, FiniteSets, TLC

\* ---- program constants ------------------------------------------------
PageSize == 20
SearchLimit == 1000

\* ---- bounds of the model ----------------------------------------------
MaxStore == 41
MaxDelId == 2
MaxMutations == 1
MaxChurn == 2
MaxOver == 2
MaxBigStore == 1002
MaxCallbacks == 2
MaxMounts == 1
MaxCalls == 3
MaxInflight == 2
MaxInputs == 2

\* ---- values -------------------------------------------------------------
Min(a, b) == IF a <= b THEN a ELSE b

\* a JavaScript number | null argument: an integer, NaN or null
Num(n) == [t |-> "num", v |-> n]
NaN == [t |-> "nan", v |-> 0]
Null == [t |-> "null", v |-> 0]

\* a URL query parameter: absent (undefined) or a string
Absent == [t |-> "absent", s |-> <<>>]
Str(s) == [t |-> "str", s |-> s]

\* ---- the users table ----------------------------------------------------
\* the three kinds of row the initial table is filled with: a name that
\* contains "a" (in mixed case), a name without "a" whose username and email
\* contain it, and an empty name
Kinds ==
  << [name |-> <<"A", "l">>, username |-> <<"b", "o">>, email |-> <<"b">>],
     [name |-> <<"b", "o">>, username |-> <<"a", "l">>, email |-> <<"a">>],
     [name |-> <<>>,         username |-> <<"a">>,      email |-> <<"o">>] >>

NumKinds == Len(Kinds)

Row(id, data) ==
  [id |-> id, name |-> data.name, username |-> data.username, email |-> data.email]

\* n rows with serial ids 1..n in insertion order
MkStore(n, shift, period) ==
  [i \in 1..n |-> Row(i, Kinds[((i - 1 + shift) % period) + 1])]

\* ---- ILIKE ----------------------------------------------------------------
Lower(c) ==
  CASE c = "A" -> "a"
    [] c = "B" -> "b"
    [] c = "L" -> "l"
    [] c = "O" -> "o"
    [] OTHER -> c

LowerSeq(s) == [i \in 1..Len(s) |-> Lower(s[i])]

\* SQL LIKE: % matches any run of characters, _ any one character, and a
\* backslash makes the next pattern character literal
RECURSIVE Like(_, _)
Like(p, t) ==
  IF p = <<>> THEN t = <<>>
  ELSE IF Head(p) = "%" THEN
    Like(Tail(p), t) \/ (t # <<>> /\ Like(p, Tail(t)))
  ELSE IF Head(p) = "_" THEN
    t # <<>> /\ Like(Tail(p), Tail(t))
  ELSE IF Head(p) = "\\" /\ Len(p) > 1 THEN
    t # <<>> /\ Head(t) = p[2] /\ Like(Tail(Tail(p)), Tail(t))
  ELSE
    t # <<>> /\ Head(t) = Head(p) /\ Like(Tail(p), Tail(t))

ILike(p, t) == Like(LowerSeq(p), LowerSeq(t))

\* plain case-insensitive substring test (what the search is meant to be)
ContainsCI(t, s) ==
  \E i \in 0..(Len(t) - Len(s)) :
    LowerSeq(SubSeq(t, i + 1, i + Len(s))) = LowerSeq(s)

Take(rows, n) == SubSeq(rows, 1, Min(Len(rows), n))

\* ---- store operations -----------------------------------------------------
\* a search without its LIMIT
DbSearchNoLimit(rows, search, limit) ==
  SelectSeq(rows, LAMBDA r : ILike(<<"%">> \o search \o <<"%">>, r.name))

\* select().from(users).where(ilike(users.name, `%${search}%`)).limit(limit)
DbSearch(rows, search, limit) ==
  Take(SelectSeq(rows, LAMBDA r : ILike(<<"%">> \o search \o <<"%">>, r.name)),
       limit)

\* a page read that starts one row late
DbPageLate(rows, offset, limit, over) ==
  SubSeq(rows, offset + 2, Min(Len(rows), offset + 1 + limit + over))

\* select().from(users).limit(limit).offset(offset); a store that hands back
\* over rows beyond the limit is the defensive case of the page-size test
DbPage(rows, offset, limit, over) ==
  SubSeq(rows, offset + 1, Min(Len(rows), offset + limit + over))

\* delete(users).where(eq(users.id, id))
DbDelete(rows, id) == SelectSeq(rows, LAMBDA r : r.id # id)

\* insert into users: the store assigns the next serial id
DbInsert(rows, id, data) == Append(rows, Row(id, data))

\* ---- getUsers ---------------------------------------------------------------
Ok(users, newOffset, call) ==
  [status |-> "ok", users |-> users, newOffset |-> newOffset, storeCall |-> call]

Failed(call) ==
  [status |-> "error", users |-> <<>>, newOffset |-> Null, storeCall |-> call]

\* the store rejects an OFFSET that is not a non-negative integer
BadOffset(offset) == offset.t # "num" \/ offset.v < 0

\* getUsers with the search paginated by offset
getUsersOffsetSearch(rows, over, fault, search, offset) ==
  IF search # <<>> THEN
    IF fault THEN Failed("search")
    ELSE LET found == DbSearch(rows, search, SearchLimit)
             skip == IF offset.t = "num" /\ offset.v > 0 THEN offset.v ELSE 0
         IN  Ok(SubSeq(found, skip + 1, Len(found)), Null, "search")
  ELSE IF offset = Null THEN Ok(<<>>, Null, "none")
  ELSE IF fault \/ BadOffset(offset) THEN Failed("page")
  ELSE LET moreUsers == DbPage(rows, offset.v, PageSize, over)
           newOffset == IF Len(moreUsers) >= PageSize
                        THEN Num(offset.v + PageSize) ELSE Null
       IN  Ok(moreUsers, newOffset, "page")

\* getUsers with moreUsers.length > 20
getUsersMore(rows, over, fault, search, offset) ==
  IF search # <<>> THEN
    IF fault THEN Failed("search")
    ELSE Ok(DbSearch(rows, search, SearchLimit), Null, "search")
  ELSE IF offset = Null THEN Ok(<<>>, Null, "none")
  ELSE IF fault \/ BadOffset(offset) THEN Failed("page")
  ELSE LET moreUsers == DbPage(rows, offset.v, PageSize, over)
           newOffset == IF Len(moreUsers) > PageSize
                        THEN Num(offset.v + PageSize) ELSE Null
       IN  Ok(moreUsers, newOffset, "page")

\* getUsers with moreUsers.length === 20
getUsersExact(rows, over, fault, search, offset) ==
  IF search # <<>> THEN
    IF fault THEN Failed("search")
    ELSE Ok(DbSearch(rows, search, SearchLimit), Null, "search")
  ELSE IF offset = Null THEN Ok(<<>>, Null, "none")
  ELSE IF fault \/ BadOffset(offset) THEN Failed("page")
  ELSE LET moreUsers == DbPage(rows, offset.v, PageSize, over)
           newOffset == IF Len(moreUsers) = PageSize
                        THEN Num(offset.v + PageSize) ELSE Null
       IN  Ok(moreUsers, newOffset, "page")

\* getUsers without the offset === null exit: null pages from the start
getUsersNoNullExit(rows, over, fault, search, offset) ==
  IF search # <<>> THEN
    IF fault THEN Failed("search")
    ELSE Ok(DbSearch(rows, search, SearchLimit), Null, "search")
  ELSE IF fault \/ (offset # Null /\ BadOffset(offset)) THEN Failed("page")
  ELSE LET from == IF offset = Null THEN 0 ELSE offset.v
           moreUsers == DbPage(rows, from, PageSize, over)
           newOffset == IF Len(moreUsers) >= PageSize
                        THEN Num(from + PageSize) ELSE Null
       IN  Ok(moreUsers, newOffset, "page")

\* a getUsers whose newOffset is one short of the end of the page
getUsersShortStride(rows, over, fault, search, offset) ==
  IF search # <<>> THEN
    IF fault THEN Failed("search")
    ELSE Ok(DbSearch(rows, search, SearchLimit), Null, "search")
  ELSE IF offset = Null THEN Ok(<<>>, Null, "none")
  ELSE IF fault \/ BadOffset(offset) THEN Failed("page")
  ELSE LET moreUsers == DbPage(rows, offset.v, PageSize, over)
           newOffset == IF Len(moreUsers) >= PageSize
                        THEN Num(offset.v + PageSize - 1) ELSE Null
       IN  Ok(moreUsers, newOffset, "page")

\* a getUsers that catches the store's error and returns an empty listing
getUsersCatch(rows, over, fault, search, offset) ==
  IF search # <<>> THEN
    IF fault THEN Ok(<<>>, Null, "search")
    ELSE Ok(DbSearch(rows, search, SearchLimit), Null, "search")
  ELSE IF offset = Null THEN Ok(<<>>, Null, "none")
  ELSE IF fault \/ BadOffset(offset) THEN Ok(<<>>, Null, "page")
  ELSE LET moreUsers == DbPage(rows, offset.v, PageSize, over)
           newOffset == IF Len(moreUsers) >= PageSize
                        THEN Num(offset.v + PageSize) ELSE Null
       IN  Ok(moreUsers, newOffset, "page")

\* getUsers(search, offset)
getUsers(rows, over, fault, search, offset) ==
  IF search # <<>> THEN
    IF fault THEN Failed("search")
    ELSE Ok(DbSearch(rows, search, SearchLimit), Null, "search")
  ELSE IF offset = Null THEN Ok(<<>>, Null, "none")
  ELSE IF fault \/ BadOffset(offset) THEN Failed("page")
  ELSE LET moreUsers == DbPage(rows, offset.v, PageSize, over)
           newOffset == IF Len(moreUsers) >= PageSize
                        THEN Num(offset.v + PageSize) ELSE Null
       IN  Ok(moreUsers, newOffset, "page")

\* ---- state --------------------------------------------------------------------
VARIABLES
  store,          \* rows of the users table, in insertion order
  nextId,         \* next value of the serial id sequence
  storeOver,      \* rows the store returns beyond a LIMIT (0: LIMIT is honoured)
  ver,            \* number of changes made to the table
  last,           \* the latest getUsers call: its arguments and what it returned
  page,           \* the latest IndexPage render: its searchParams and props
  deletedOk,      \* ids whose deleteUserById returned without error
  revalidations,  \* revalidatePath('/') calls
  errorsLogged,   \* console.error calls of the server actions
  action          \* the latest server action call: what it did, in order, and
                  \* how its promise settled

\* useInfiniteScroll(onIntersect) in a component, and the sentinel it watches
VARIABLES
  mounted,        \* the component is mounted: sentinelRef.current is an element
  mounts,         \* mounts so far
  stable,         \* the caller passes the same function at every render
  onIntersect,    \* identity of the callback given at the latest render (0: none)
  observer,       \* the observer state: index into observers, 0 for null
  observerSeen,   \* the observer state as read by the latest render
  observerSet,    \* the value last given to setObserver
  observers,      \* every IntersectionObserver created: the callback its closure
                  \* holds, whether it observes the sentinel, and the state
                  \* ("in" / "out", "none" before the first) it last reported
  cleanupObs,     \* the obs the pending cleanup function disconnects (0: none)
  effectPending,  \* a render is committed and its effects have not run yet
  visible,        \* the sentinel is within the root margin of the viewport
  calls,          \* the callbacks invoked, in order
  visitCalls      \* invocations since the sentinel last became visible

hookVars ==
  <<mounted, mounts, stable, onIntersect, observer, observerSeen, observerSet,
    observers, cleanupObs, effectPending, visible, calls, visitCalls>>

\* the browser showing the index page: the router, UsersTable and Search
VARIABLES
  location,       \* window.location.search, without its leading "?"
  inflight,       \* the router.replace navigations not settled yet, oldest first:
                  \* who called it and the query string of its URL
  searchMounted,  \* the page is loaded and its Search component mounted
  value,          \* the value state of Search: undefined or a string
  isPending,      \* the isPending of Search's useTransition
  inputs,         \* input events so far
  reloads,        \* window.location.reload() calls
  walk            \* a caller that reads page after page, from offset 0 on, each
                  \* time at the newOffset it was given: the ids it has got, its
                  \* number of reads and the ver of the table when it started

viewVars ==
  <<location, inflight, searchMounted, value, isPending, inputs, reloads, walk>>

vars ==
  <<store, nextId, storeOver, ver, last, page, deletedOk, revalidations,
    errorsLogged, action, hookVars, viewVars>>

NoAction == [name |-> "none", arg |-> 0, effects |-> <<>>, result |-> "none"]

\* a server action that ran to its end: an async function that returns
\* normally resolves its promise, one that throws rejects it
Ran(name, arg, effects, threw) ==
  [name |-> name, arg |-> arg, effects |-> effects,
   result |-> IF threw THEN "rejected" ELSE "resolved"]

NoCall ==
  [status |-> "init", users |-> <<>>, newOffset |-> Null, storeCall |-> "none",
   search |-> <<>>, offset |-> Null, ver |-> 0, repeat |-> FALSE]

NoPage ==
  [status |-> "init", q |-> Absent, offset |-> Absent, users |-> <<>>,
   newOffset |-> Null, ver |-> 0]

HookInit(st, vis) ==
  /\ mounted = FALSE
  /\ mounts = 0
  /\ stable = st
  /\ onIntersect = 0
  /\ observer = 0
  /\ observerSeen = 0
  /\ observerSet = 0
  /\ observers = <<>>
  /\ cleanupObs = 0
  /\ effectPending = FALSE
  /\ visible = vis
  /\ calls = <<>>
  /\ visitCalls = 0

ViewInit(loc) ==
  /\ location = loc
  /\ inflight = <<>>
  /\ searchMounted = FALSE
  /\ value = Absent
  /\ isPending = FALSE
  /\ inputs = 0
  /\ reloads = 0
  /\ walk = [on |-> FALSE, ids |-> <<>>, reads |-> 0, ver |-> 0]

InitWith(rows, over) ==
  /\ HookInit(TRUE, FALSE)
  /\ ViewInit(<<>>)
  /\ store = rows
  /\ nextId = Len(rows) + 1
  /\ storeOver = over
  /\ ver = 0
  /\ last = NoCall
  /\ page = NoPage
  /\ deletedOk = {}
  /\ revalidations = 0
  /\ errorsLogged = 0
  /\ action = NoAction

\* table sizes: empty, a short page, one full page, a full and a short page,
\* and more than two pages
InitSizes == {0, 5, PageSize, PageSize + 5, MaxStore}

Init == \E n \in InitSizes : InitWith(MkStore(n, 0, NumKinds), 0)

\* ---- IndexPage: from the URL query to the getUsers call -------------------------
DigitChars == <<"0", "1", "2", "3", "4", "5", "6", "7", "8", "9">>

Digits == {DigitChars[i] : i \in 1..10}

DigitVal(c) == (CHOOSE i \in 1..10 : DigitChars[i] = c) - 1

AllDigits(s) == \A i \in 1..Len(s) : s[i] \in Digits

RECURSIVE DecVal(_)
DecVal(s) ==
  IF s = <<>> THEN 0 ELSE 10 * DecVal(SubSeq(s, 1, Len(s) - 1)) + DigitVal(s[Len(s)])

\* Number(string): the empty string is 0, an optionally signed run of decimal
\* digits is its value, anything else is NaN
StringToNumber(s) ==
  IF s = <<>> THEN Num(0)
  ELSE IF AllDigits(s) THEN Num(DecVal(s))
  ELSE IF Head(s) \in {"-", "+"} /\ Len(s) > 1 /\ AllDigits(Tail(s)) THEN
    Num(IF Head(s) = "-" THEN 0 - DecVal(Tail(s)) ELSE DecVal(Tail(s)))
  ELSE NaN

\* Number(x) for x a string or already a number
Number(x) == IF x.t = "str" THEN StringToNumber(x.s) ELSE x

\* const search = searchParams.q ?? ''
SearchArg(q) == IF q = Absent THEN <<>> ELSE q.s

\* an absent offset handed on as null
OffsetArgNull(offset) == IF offset = Absent THEN Null ELSE Number(offset)

\* const offset = searchParams.offset ?? 0;  ... Number(offset)
OffsetArg(offset) == Number(IF offset = Absent THEN Num(0) ELSE offset)

\* ---- actions ----------------------------------------------------------------------
Called(res, search, offset) ==
  [status |-> res.status, users |-> res.users, newOffset |-> res.newOffset,
   storeCall |-> res.storeCall, search |-> search, offset |-> offset, ver |-> ver,
   repeat |-> /\ last.status = "ok"
              /\ last.search = search
              /\ last.offset = offset
              /\ last.ver = ver]

\* a getUsers that pages from where the previous call stopped
GetUsersCursor(search, offset, fault) ==
  /\ last' = Called(getUsers(store, storeOver, fault, search,
                             IF last.status = "ok" /\ last.newOffset # Null
                                /\ offset # Null
                             THEN last.newOffset ELSE offset),
                    search, offset)
  /\ UNCHANGED <<store, nextId, storeOver, ver, page, deletedOk, revalidations,
                 errorsLogged, action, hookVars, viewVars>>

\* a getUsers that signals an invalidation after each read
GetUsersRevalidate(search, offset, fault) ==
  /\ last' = Called(getUsers(store, storeOver, fault, search, offset),
                    search, offset)
  /\ revalidations' = revalidations + 1
  /\ UNCHANGED <<store, nextId, storeOver, ver, page, deletedOk,
                 errorsLogged, action, hookVars, viewVars>>

\* await getUsers(search, offset), called directly
GetUsers(search, offset, fault) ==
  /\ last' = Called(getUsers(store, storeOver, fault, search, offset),
                    search, offset)
  /\ UNCHANGED <<store, nextId, storeOver, ver, page, deletedOk, revalidations,
                 errorsLogged, action, hookVars, viewVars>>

\* IndexPage({searchParams}): a failed getUsers rejects the render
IndexPageRender(q, offset, fault) ==
  \E search \in {SearchArg(q)}, off \in {OffsetArg(offset)} :
    \E res \in {getUsers(store, storeOver, fault, search, off)} :
      /\ last' = Called(res, search, off)
      /\ page' = [status |-> res.status, q |-> q, offset |-> offset,
                  users |-> res.users, newOffset |-> res.newOffset, ver |-> ver]
      /\ UNCHANGED <<store, nextId, storeOver, ver, deletedOk, revalidations,
                     errorsLogged, action, hookVars>>

\* a request for the index page
IndexPage(q, offset, fault) ==
  /\ IndexPageRender(q, offset, fault)
  /\ UNCHANGED viewVars

\* a deleteUser whose store delete takes effect although it throws
DeleteUserHalfDone(userId, fault) ==
  /\ IF fault
     THEN /\ store' = DbDelete(store, userId)
          /\ ver' = IF store' # store THEN ver + 1 ELSE ver
          /\ errorsLogged' = errorsLogged + 1
          /\ action' = Ran("deleteUser", userId,
                           <<"deleteUserById:throw", "console.error">>, FALSE)
          /\ UNCHANGED <<deletedOk, revalidations>>
     ELSE /\ store' = DbDelete(store, userId)
          /\ ver' = IF store' # store THEN ver + 1 ELSE ver
          /\ deletedOk' = deletedOk \cup {userId}
          /\ revalidations' = revalidations + 1
          /\ action' = Ran("deleteUser", userId,
                           <<"deleteUserById", "revalidatePath">>, FALSE)
          /\ UNCHANGED errorsLogged
  /\ UNCHANGED <<nextId, storeOver, last, page, hookVars, viewVars>>

\* a deleteUser that revalidates in a finally block
DeleteUserFinally(userId, fault) ==
  /\ IF fault
     THEN /\ errorsLogged' = errorsLogged + 1
          /\ revalidations' = revalidations + 1
          /\ action' = Ran("deleteUser", userId,
                           <<"deleteUserById:throw", "console.error",
                             "revalidatePath">>, FALSE)
          /\ UNCHANGED <<store, ver, deletedOk>>
     ELSE /\ store' = DbDelete(store, userId)
          /\ ver' = IF store' # store THEN ver + 1 ELSE ver
          /\ deletedOk' = deletedOk \cup {userId}
          /\ revalidations' = revalidations + 1
          /\ action' = Ran("deleteUser", userId,
                           <<"deleteUserById", "revalidatePath">>, FALSE)
          /\ UNCHANGED errorsLogged
  /\ UNCHANGED <<nextId, storeOver, last, page, hookVars, viewVars>>

\* a deleteUser that revalidates before it awaits the store delete
DeleteUserRevalidateFirst(userId, fault) ==
  /\ IF fault
     THEN /\ errorsLogged' = errorsLogged + 1
          /\ revalidations' = revalidations + 1
          /\ action' = Ran("deleteUser", userId,
                           <<"revalidatePath", "deleteUserById:throw",
                             "console.error">>, FALSE)
          /\ UNCHANGED <<store, ver, deletedOk>>
     ELSE /\ store' = DbDelete(store, userId)
          /\ ver' = IF store' # store THEN ver + 1 ELSE ver
          /\ deletedOk' = deletedOk \cup {userId}
          /\ revalidations' = revalidations + 1
          /\ action' = Ran("deleteUser", userId,
                           <<"revalidatePath", "deleteUserById">>, FALSE)
          /\ UNCHANGED errorsLogged
  /\ UNCHANGED <<nextId, storeOver, last, page, hookVars, viewVars>>

\* deleteUser(userId): try { await deleteUserById(userId); revalidatePath('/') }
\* catch (error) { console.error(...) }
\* A failed store delete changes no row; the catch block does not rethrow, so
\* the action returns normally on both paths
DeleteUser(userId, fault) ==
  /\ IF fault
     THEN /\ errorsLogged' = errorsLogged + 1
          /\ action' = Ran("deleteUser", userId,
                           <<"deleteUserById:throw", "console.error">>, FALSE)
          /\ UNCHANGED <<store, ver, deletedOk, revalidations>>
     ELSE /\ store' = DbDelete(store, userId)
          /\ ver' = IF store' # store THEN ver + 1 ELSE ver
          /\ deletedOk' = deletedOk \cup {userId}
          /\ revalidations' = revalidations + 1
          /\ action' = Ran("deleteUser", userId,
                           <<"deleteUserById", "revalidatePath">>, FALSE)
          /\ UNCHANGED errorsLogged
  /\ UNCHANGED <<nextId, storeOver, last, page, hookVars, viewVars>>

\* handleAddUser(data): try { await addUser(data); revalidatePath('/') }
\* catch (error) { console.error(...) }
HandleAddUser(data, fault) ==
  /\ IF fault
     THEN /\ errorsLogged' = errorsLogged + 1
          /\ action' = Ran("handleAddUser", 0,
                           <<"addUser:throw", "console.error">>, FALSE)
          /\ UNCHANGED <<store, nextId, ver, revalidations>>
     ELSE /\ store' = DbInsert(store, nextId, data)
          /\ nextId' = nextId + 1
          /\ ver' = ver + 1
          /\ revalidations' = revalidations + 1
          /\ action' = Ran("handleAddUser", 0,
                           <<"addUser", "revalidatePath">>, FALSE)
          /\ UNCHANGED errorsLogged
  /\ UNCHANGED <<storeOver, last, page, deletedOk, hookVars, viewVars>>

\* ---- useInfiniteScroll -----------------------------------------------------------------
storeVars ==
  <<store, nextId, storeOver, ver, last, page, deletedOk, revalidations,
    errorsLogged, action>>

\* obs.disconnect()
Disconnect(obsSeq, i) ==
  IF i = 0 THEN obsSeq ELSE [obsSeq EXCEPT ![i].connected = FALSE]

\* new IntersectionObserver(([entry]) => { if (entry.isIntersecting) onIntersect() })
NewObserver(cb, target) == [cb |-> cb, connected |-> target, prev |-> "none"]

\* the component mounts: its first render is committed, its effect is pending
Mount ==
  /\ ~mounted
  /\ ~effectPending
  /\ mounts < MaxMounts
  /\ onIntersect < MaxCallbacks
  /\ mounted' = TRUE
  /\ mounts' = mounts + 1
  /\ onIntersect' = onIntersect + 1
  /\ observer' = 0
  /\ observerSeen' = 0
  /\ observerSet' = 0
  /\ cleanupObs' = 0
  /\ effectPending' = TRUE
  /\ UNCHANGED <<stable, observers, visible, calls, visitCalls, storeVars, viewVars>>

\* the parent renders the component again with another callback function
ChangeCallback ==
  /\ mounted
  /\ ~effectPending
  /\ onIntersect < MaxCallbacks
  /\ onIntersect' = onIntersect + 1
  /\ observer' = observerSet
  /\ observerSeen' = observerSet
  /\ effectPending' = TRUE
  /\ UNCHANGED <<mounted, mounts, stable, observerSet, observers, cleanupObs,
                 visible, calls, visitCalls, storeVars, viewVars>>

\* the render that setObserver(obs) asks for; an unstable caller makes a new
\* callback function in it, and the effect runs again when onIntersect changed
Rerender ==
  /\ mounted
  /\ ~effectPending
  /\ observerSet # observer
  /\ stable \/ onIntersect < MaxCallbacks
  /\ observer' = observerSet
  /\ observerSeen' = observerSet
  /\ onIntersect' = IF stable THEN onIntersect ELSE onIntersect + 1
  /\ effectPending' = ~stable
  /\ UNCHANGED <<mounted, mounts, stable, observerSet, observers, cleanupObs,
                 visible, calls, visitCalls, storeVars, viewVars>>

\* the component unmounts; the cleanup of its effect is pending
Unmount ==
  /\ mounted
  /\ ~effectPending
  /\ mounted' = FALSE
  /\ effectPending' = TRUE
  /\ UNCHANGED <<mounts, stable, onIntersect, observer, observerSeen, observerSet,
                 observers, cleanupObs, visible, calls, visitCalls, storeVars, viewVars>>

\* an effect that returns no cleanup function
FlushEffectsNoCleanup ==
  /\ effectPending
  /\ effectPending' = FALSE
  /\ IF mounted
     THEN LET torn == Disconnect(observers, observerSeen)
          IN  /\ observers' = Append(torn, NewObserver(onIntersect, TRUE))
              /\ observerSet' = Len(observers) + 1
              /\ cleanupObs' = 0
     ELSE UNCHANGED <<observers, observerSet, cleanupObs>>
  /\ UNCHANGED <<mounted, mounts, stable, onIntersect, observer, observerSeen,
                 visible, calls, visitCalls, storeVars, viewVars>>

\* the pending effects run: the cleanup of the previous effect, then, when the
\* component is still mounted, the effect body
\*   if (observer) observer.disconnect();  const obs = new IntersectionObserver(..);
\*   setObserver(obs);  if (sentinelRef.current) obs.observe(sentinelRef.current);
\*   return () => obs.disconnect();
FlushEffects ==
  /\ effectPending
  /\ effectPending' = FALSE
  /\ IF mounted
     THEN LET cleaned == Disconnect(observers, cleanupObs)
              torn == Disconnect(cleaned, observerSeen)
          IN  /\ observers' = Append(torn, NewObserver(onIntersect, TRUE))
              /\ observerSet' = Len(observers) + 1
              /\ cleanupObs' = Len(observers) + 1
     ELSE /\ observers' = Disconnect(observers, cleanupObs)
          /\ cleanupObs' = 0
          /\ UNCHANGED observerSet
  /\ UNCHANGED <<mounted, mounts, stable, onIntersect, observer, observerSeen,
                 visible, calls, visitCalls, storeVars, viewVars>>

\* a frame: the sentinel has moved into or out of the root margin (flip) or
\* stayed; every observer that observes it and last reported another state is
\* notified, and its callback calls onIntersect when the entry is intersecting
Frame(flip) ==
  LET vis == IF flip THEN ~visible ELSE visible
      cur == IF vis THEN "in" ELSE "out"
      due == {i \in 1..Len(observers) :
                observers[i].connected /\ observers[i].prev # cur}
      dueSeq == SelectSeq([i \in 1..Len(observers) |-> i], LAMBDA i : i \in due)
      fired == IF vis THEN [k \in 1..Len(dueSeq) |-> observers[dueSeq[k]].cb]
               ELSE <<>>
  IN  /\ flip \/ due # {}
      /\ Len(calls) + Len(fired) <= MaxCalls
      /\ visible' = vis
      /\ observers' = [i \in 1..Len(observers) |->
                         IF i \in due THEN [observers[i] EXCEPT !.prev = cur]
                         ELSE observers[i]]
      /\ calls' = calls \o fired
      /\ visitCalls' = (IF flip /\ vis THEN 0 ELSE visitCalls) + Len(fired)
      /\ UNCHANGED <<mounted, mounts, stable, onIntersect, observer, observerSeen,
                     observerSet, cleanupObs, effectPending, storeVars, viewVars>>

InitScroll ==
  /\ \E st \in BOOLEAN, vis \in BOOLEAN : HookInit(st, vis)
  /\ ViewInit(<<>>)
  /\ store = <<>>
  /\ nextId = 1
  /\ storeOver = 0
  /\ ver = 0
  /\ last = NoCall
  /\ page = NoPage
  /\ deletedOk = {}
  /\ revalidations = 0
  /\ errorsLogged = 0
  /\ action = NoAction

NextScroll ==
  \/ Mount
  \/ ChangeCallback
  \/ Rerender
  \/ Unmount
  \/ FlushEffects
  \/ \E flip \in BOOLEAN : Frame(flip)

SpecScroll == InitScroll /\ [][NextScroll]_vars

\* React runs the effects of a committed render and the renders that a state
\* update asks for
SpecScrollFair == SpecScroll /\ WF_vars(FlushEffects) /\ WF_vars(Rerender)

\* ---- URLSearchParams -------------------------------------------------------------------
\* the characters the serializer leaves as they are
Unreserved ==
  Digits \cup {"a", "b", "e", "f", "o", "q", "s", "t", "*", "-", ".", "_"}

\* the two hexadecimal digits of a character's byte
HexOf(c) ==
  CASE c = " " -> <<"2", "0">>
    [] c = "#" -> <<"2", "3">>
    [] c = "%" -> <<"2", "5">>
    [] c = "&" -> <<"2", "6">>
    [] c = "+" -> <<"2", "B">>
    [] c = "=" -> <<"3", "D">>
    [] c = "?" -> <<"3", "F">>

Escaped == {" ", "#", "%", "&", "+", "=", "?"}

\* application/x-www-form-urlencoded serializing of one name or value
RECURSIVE FormEncode(_)
FormEncode(str) ==
  IF str = <<>> THEN <<>>
  ELSE LET c == Head(str)
       IN  (IF c = " " THEN <<"+">>
            ELSE IF c \in Unreserved THEN <<c>>
            ELSE <<"%">> \o HexOf(c)) \o FormEncode(Tail(str))

\* ... and its parsing: "+" is a space, %XX the character of that byte
RECURSIVE FormDecode(_)
FormDecode(str) ==
  IF str = <<>> THEN <<>>
  ELSE IF Head(str) = "+" THEN <<" ">> \o FormDecode(Tail(str))
  ELSE IF /\ Head(str) = "%"
          /\ Len(str) >= 3
          /\ \E c \in Escaped : HexOf(c) = SubSeq(str, 2, 3)
       THEN <<CHOOSE c \in Escaped : HexOf(c) = SubSeq(str, 2, 3)>>
            \o FormDecode(SubSeq(str, 4, Len(str)))
  ELSE <<Head(str)>> \o FormDecode(Tail(str))

\* the index of the first c in str[from..to], 0 when there is none
IndexOf(str, c, from, to) ==
  IF \E i \in from..to : str[i] = c
  THEN CHOOSE i \in from..to : str[i] = c /\ \A j \in from..(i - 1) : str[j] # c
  ELSE 0

\* the pieces of str between the separators c, as the pairs <<from, to>> of their
\* first and last index
Split(str, c) ==
  LET seps == SelectSeq([i \in 1..Len(str) |-> i], LAMBDA i : str[i] = c)
  IN  [k \in 1..(Len(seps) + 1) |->
         <<IF k = 1 THEN 1 ELSE seps[k - 1] + 1,
           IF k = Len(seps) + 1 THEN Len(str) ELSE seps[k] - 1>>]

\* the name=value piece str[from..to] of a query string
ParsePair(str, from, to) ==
  LET i == IndexOf(str, "=", from, to)
  IN  IF i = 0 THEN [name |-> FormDecode(SubSeq(str, from, to)), val |-> <<>>]
      ELSE [name |-> FormDecode(SubSeq(str, from, i - 1)),
            val |-> FormDecode(SubSeq(str, i + 1, to))]

\* new URLSearchParams(search): the list of name-value pairs
ParseSearch(search) ==
  LET pieces == SelectSeq(Split(search, "&"), LAMBDA piece : piece[1] <= piece[2])
  IN  [k \in 1..Len(pieces) |-> ParsePair(search, pieces[k][1], pieces[k][2])]

\* params.get(name), and searchParams[name] of the page
ParamGet(params, name) ==
  IF \E i \in 1..Len(params) : params[i].name = name
  THEN Str(params[CHOOSE i \in 1..Len(params) :
                    /\ params[i].name = name
                    /\ \A j \in 1..(i - 1) : params[j].name # name].val)
  ELSE Absent

\* params.delete(name)
ParamDelete(params, name) == SelectSeq(params, LAMBDA pair : pair.name # name)

\* params.set(name, val): the first pair of that name gets the value and the
\* others go; with no such pair one is appended
ParamSet(params, name, val) ==
  IF \E i \in 1..Len(params) : params[i].name = name
  THEN LET first == CHOOSE i \in 1..Len(params) :
                      /\ params[i].name = name
                      /\ \A j \in 1..(i - 1) : params[j].name # name
           idx == SelectSeq([i \in 1..Len(params) |-> i],
                            LAMBDA i : i = first \/ params[i].name # name)
       IN  [k \in 1..Len(idx) |->
              IF idx[k] = first THEN [name |-> name, val |-> val]
              ELSE params[idx[k]]]
  ELSE Append(params, [name |-> name, val |-> val])

\* params.toString()
RECURSIVE ParamsToString(_)
ParamsToString(params) ==
  IF params = <<>> THEN <<>>
  ELSE FormEncode(Head(params).name) \o <<"=">> \o FormEncode(Head(params).val)
       \o (IF Len(params) > 1 THEN <<"&">> ELSE <<>>)
       \o ParamsToString(Tail(params))

Q == <<"q">>

OFFSET == <<"o", "f", "f", "s", "e", "t">>

\* `${n}` for a non-negative integer
RECURSIVE NumberToString(_)
NumberToString(n) ==
  IF n < 10 THEN <<DigitChars[n + 1]>>
  ELSE NumberToString(n \div 10) \o <<DigitChars[(n % 10) + 1]>>

\* ---- the index page in the browser -------------------------------------------------------
Nav(by, url) == [by |-> by, url |-> url]

SearchInFlight(navs) == \E i \in 1..Len(navs) : navs[i].by = "search"

\* value.trim(), for leading and trailing spaces
RECURSIVE TrimStart(_)
TrimStart(str) ==
  IF str # <<>> /\ Head(str) = " " THEN TrimStart(Tail(str)) ELSE str

RECURSIVE TrimEnd(_)
TrimEnd(str) ==
  IF str # <<>> /\ str[Len(str)] = " " THEN TrimEnd(SubSeq(str, 1, Len(str) - 1))
  ELSE str

\* an effect that trims the value before it sets q
SearchEffectTrim(v) ==
  IF v = Absent
  THEN UNCHANGED <<inflight, isPending>>
  ELSE LET params == ParseSearch(location)
           next == IF TrimEnd(TrimStart(v.s)) # <<>>
                   THEN ParamSet(params, Q, TrimEnd(TrimStart(v.s)))
                   ELSE ParamDelete(params, Q)
       IN  /\ inflight' = Append(inflight, Nav("search", ParamsToString(next)))
           /\ isPending' = TRUE

\* an effect that builds the query string from nothing but the value
SearchEffectFresh(v) ==
  IF v = Absent
  THEN UNCHANGED <<inflight, isPending>>
  ELSE LET next == IF v.s # <<>> THEN ParamSet(<<>>, Q, v.s) ELSE <<>>
       IN  /\ inflight' = Append(inflight, Nav("search", ParamsToString(next)))
           /\ isPending' = TRUE

\* the effect of Search for the value v:
\*   const params = new URLSearchParams(window.location.search);
\*   if (value === undefined) return;
\*   else if (value) params.set('q', value); else params.delete('q');
\*   startTransition(() => { router.replace(`/?${params.toString()}`) });
SearchEffect(v) ==
  IF v = Absent
  THEN UNCHANGED <<inflight, isPending>>
  ELSE LET params == ParseSearch(location)
           next == IF v.s # <<>> THEN ParamSet(params, Q, v.s)
                   ELSE ParamDelete(params, Q)
       IN  /\ inflight' = Append(inflight, Nav("search", ParamsToString(next)))
           /\ isPending' = TRUE

\* the document is loaded: IndexPage renders for the URL, Search mounts with
\* props.value = searchParams.q as its value and its effect runs
Load ==
  /\ ~searchMounted
  /\ \E searchParams \in {ParseSearch(location)} :
       \E q \in {ParamGet(searchParams, Q)},
          offset \in {ParamGet(searchParams, OFFSET)} :
         /\ IndexPageRender(q, offset, FALSE)
         /\ value' = q
  /\ searchMounted' = TRUE
  /\ SearchEffect(value')
  /\ UNCHANGED <<location, inputs, reloads, walk>>

\* onInput={(e) => setValue(e.currentTarget.value)} with another value than the
\* field had, the render it asks for and the effect of that render
OnInput(str) ==
  /\ searchMounted
  /\ str # (IF value = Absent THEN <<>> ELSE value.s)
  /\ inputs < MaxInputs
  /\ Len(inflight) < MaxInflight
  /\ value' = Str(str)
  /\ inputs' = inputs + 1
  /\ SearchEffect(value')
  /\ UNCHANGED <<location, searchMounted, reloads, walk, storeVars, hookVars>>

\* `${offset}` for the offset prop of UsersTable, a number or null
OffsetText(offset) ==
  IF offset = Null THEN <<"n", "u", "l", "l">> ELSE NumberToString(offset.v)

\* a Next Page button that is rendered whatever the offset prop is
OnClickAlways ==
  /\ searchMounted
  /\ page.status = "ok"
  /\ Len(inflight) < MaxInflight
  /\ inflight' = Append(inflight,
                        Nav("next", OFFSET \o <<"=">> \o OffsetText(page.newOffset)))
  /\ UNCHANGED <<location, searchMounted, value, isPending, inputs, reloads, walk, storeVars,
                 hookVars>>

\* the Next Page button, rendered when offset !== null:
\*   function onClick() { router.replace(`/?offset=${offset}`) }
OnClick ==
  /\ searchMounted
  /\ page.status = "ok"
  /\ page.newOffset # Null
  /\ Len(inflight) < MaxInflight
  /\ inflight' = Append(inflight,
                        Nav("next", OFFSET \o <<"=">> \o OffsetText(page.newOffset)))
  /\ UNCHANGED <<location, searchMounted, value, isPending, inputs, reloads, walk, storeVars,
                 hookVars>>

\* a settling that leaves isPending as it is
NavSettleStillPending ==
  /\ inflight # <<>>
  /\ inflight' = Tail(inflight)
  /\ IF Len(inflight) = 1
     THEN /\ \E searchParams \in {ParseSearch(Head(inflight).url)} :
               \E q \in {ParamGet(searchParams, Q)},
                  offset \in {ParamGet(searchParams, OFFSET)} :
                 IndexPageRender(q, offset, FALSE)
          /\ location' = Head(inflight).url
     ELSE UNCHANGED <<location, storeVars, hookVars>>
  /\ UNCHANGED <<searchMounted, value, isPending, inputs, reloads, walk>>

\* the oldest navigation settles. The latest navigation is the one that shows:
\* IndexPage renders for its URL, which becomes the location; a navigation
\* that a later one has superseded is dropped. The transition of Search is
\* over when no navigation Search started is left
NavSettle ==
  /\ inflight # <<>>
  /\ inflight' = Tail(inflight)
  /\ isPending' = IF Head(inflight).by = "search"
                  THEN SearchInFlight(Tail(inflight))
                  ELSE isPending
  /\ IF Len(inflight) = 1
     THEN /\ \E searchParams \in {ParseSearch(Head(inflight).url)} :
               \E q \in {ParamGet(searchParams, Q)},
                  offset \in {ParamGet(searchParams, OFFSET)} :
                 IndexPageRender(q, offset, FALSE)
          /\ location' = Head(inflight).url
     ELSE UNCHANGED <<location, storeVars, hookVars>>
  /\ UNCHANGED <<searchMounted, value, inputs, reloads, walk>>

\* the Delete button of the row of user userId:
\*   async function handleDelete() { await deleteUser(userId); window.location.reload() }
\* deleteUser returns normally whether the store delete failed or not, and the
\* reload gives up the document: what Search held and the navigations in
\* flight are gone, and the page is loaded again for the location
HandleDelete(userId, fault) ==
  /\ searchMounted
  /\ page.status = "ok"
  /\ \E i \in 1..Len(page.users) : page.users[i].id = userId
  /\ IF fault
     THEN /\ errorsLogged' = errorsLogged + 1
          /\ action' = Ran("deleteUser", userId,
                           <<"deleteUserById:throw", "console.error">>, FALSE)
          /\ UNCHANGED <<store, ver, deletedOk, revalidations>>
     ELSE /\ store' = DbDelete(store, userId)
          /\ ver' = IF store' # store THEN ver + 1 ELSE ver
          /\ deletedOk' = deletedOk \cup {userId}
          /\ revalidations' = revalidations + 1
          /\ action' = Ran("deleteUser", userId,
                           <<"deleteUserById", "revalidatePath">>, FALSE)
          /\ UNCHANGED errorsLogged
  /\ reloads' = reloads + 1
  /\ searchMounted' = FALSE
  /\ inflight' = <<>>
  /\ value' = Absent
  /\ isPending' = FALSE
  /\ UNCHANGED <<nextId, storeOver, last, page, hookVars, location, inputs, walk>>

\* the query strings the document is opened with
Locations ==
  {<<>>, <<"q", "=", "a">>, OFFSET \o <<"=", "2", "0">>,
   <<"q", "=", "a", "+", "b", "&">> \o OFFSET \o <<"=", "2", "0">>}

\* what the user leaves in the search field
Typed == {<<>>, <<"a">>, <<" ", "a", " ">>, <<"a", "&", "b", "=", "%">>}

ViewSizes == {5, PageSize + 5}

InitView ==
  /\ \E n \in ViewSizes :
       /\ store = MkStore(n, 0, NumKinds)
       /\ nextId = n + 1
  /\ storeOver = 0
  /\ ver = 0
  /\ last = NoCall
  /\ page = NoPage
  /\ deletedOk = {}
  /\ revalidations = 0
  /\ errorsLogged = 0
  /\ action = NoAction
  /\ HookInit(TRUE, FALSE)
  /\ \E loc \in Locations : ViewInit(loc)

NextView ==
  \/ Load
  \/ \E str \in Typed : OnInput(str)
  \/ OnClick
  \/ NavSettle

SpecView == InitView /\ [][NextView]_vars

\* every navigation settles in the end
SpecViewFair == SpecView /\ WF_vars(NavSettle)

\* ---- inputs ------------------------------------------------------------------------
SearchTerms == {<<>>, <<"a">>, <<"A", "L">>, <<"%">>, <<"_">>}

OffsetArgs == {Null, Num(0 - 1), Num(0), Num(PageSize), Num(2 * PageSize)}

QueryParams == {Absent} \cup {Str(s) : s \in {<<>>, <<"a">>}}

OffsetStrings == {<<>>, <<"0">>, <<"2", "0">>, <<"-", "2">>, <<"n">>}

OffsetParams == {Absent} \cup {Str(s) : s \in OffsetStrings}

DelIds == 1..MaxDelId

\* at most max calls of the server actions
Mutate(max) ==
  /\ revalidations + errorsLogged < max
  /\ \/ \E id \in DelIds, fault \in BOOLEAN : DeleteUser(id, fault)
     \/ \E fault \in BOOLEAN : HandleAddUser(Kinds[1], fault)

\* ---- the listing query under direct calls ------------------------------------------
Next ==
  \/ \E search \in SearchTerms, offset \in OffsetArgs, fault \in BOOLEAN :
       GetUsers(search, offset, fault)
  \/ Mutate(MaxMutations)

Spec == Init /\ [][Next]_vars

\* ---- the same, over a store that may return more rows than the LIMIT ----------------
InitLoose ==
  \E n \in InitSizes, over \in 0..MaxOver : InitWith(MkStore(n, 0, NumKinds), over)

NextLoose ==
  \/ \E offset \in OffsetArgs, fault \in BOOLEAN : GetUsers(<<>>, offset, fault)
  \/ /\ revalidations + errorsLogged < MaxMutations
     /\ \E id \in DelIds, fault \in BOOLEAN : DeleteUser(id, fault)

SpecLoose == InitLoose /\ [][NextLoose]_vars

\* ---- the index page -----------------------------------------------------------------
NextPage ==
  \/ \E q \in QueryParams, offset \in OffsetParams, fault \in BOOLEAN :
       IndexPage(q, offset, fault)
  \/ Mutate(MaxMutations)

SpecPage == Init /\ [][NextPage]_vars

\* ---- searches over a table larger than the search limit -----------------------------
BigSizes == (SearchLimit - 1)..MaxBigStore

InitBig ==
  \E n \in BigSizes, period \in {1, NumKinds} : InitWith(MkStore(n, 0, period), 0)

NextBig ==
  \/ \E search \in {<<"a">>, <<"%">>, <<"o">>}, offset \in {Null, Num(0), Num(PageSize)} :
       GetUsers(search, offset, FALSE)
  \/ /\ revalidations + errorsLogged < MaxMutations
     /\ \E fault \in BOOLEAN : DeleteUser(1, fault)

SpecBig == InitBig /\ [][NextBig]_vars

\* ---- listing between several deletions and additions --------------------------------
NextChurn ==
  \/ \E search \in {<<>>, <<"a">>}, offset \in {Num(0), Num(PageSize)} :
       GetUsers(search, offset, FALSE)
  \/ Mutate(MaxChurn)

SpecChurn == Init /\ [][NextChurn]_vars

\* ---- reading the whole table page by page ---------------------------------------------------
IdSeq(rows) == [i \in 1..Len(rows) |-> rows[i].id]

\* the walk is over: the latest read gave no newOffset
WalkDone == walk.on /\ last.status = "ok" /\ last.newOffset = Null

\* the next read of the walk: getUsers('', 0) first, then getUsers('', newOffset)
\* with the newOffset of the read before, as Next Page does
WalkRead ==
  /\ walk.on => (last.status = "ok" /\ last.newOffset # Null)
  /\ \E offset \in {IF walk.on THEN last.newOffset ELSE Num(0)} :
       \E res \in {getUsers(store, storeOver, FALSE, <<>>, offset)} :
         /\ last' = Called(res, <<>>, offset)
         /\ walk' = [on |-> TRUE,
                     ids |-> walk.ids \o IdSeq(res.users),
                     reads |-> walk.reads + 1,
                     ver |-> IF walk.on THEN walk.ver ELSE ver]
  /\ UNCHANGED <<store, nextId, storeOver, ver, page, deletedOk, revalidations,
                 errorsLogged, action, hookVars, location, inflight, searchMounted,
                 value, isPending, inputs, reloads>>

WalkSizes == 0..MaxStore

InitWalk == \E n \in WalkSizes : InitWith(MkStore(n, 0, NumKinds), 0)

NextWalk ==
  \/ WalkRead
  \/ /\ revalidations + errorsLogged < MaxMutations
     /\ \E id \in DelIds : DeleteUser(id, FALSE)

SpecWalk == InitWalk /\ [][NextWalk]_vars

\* the caller goes on reading while it has a newOffset
SpecWalkFair == SpecWalk /\ WF_vars(WalkRead)

\* ---- the rows' Delete buttons -------------------------------------------------------------
NextRows ==
  \/ Load
  \/ OnClick
  \/ NavSettle
  \/ /\ revalidations + errorsLogged < MaxChurn
     /\ \E id \in DelIds, fault \in BOOLEAN : HandleDelete(id, fault)

SpecRows == InitView /\ [][NextRows]_vars

\* ---- properties of the listing query -------------------------------------------------
\* the latest call returned normally and the table has not changed since
Fresh == last.status = "ok" /\ last.ver = ver

Paged == Fresh /\ last.search = <<>> /\ last.offset.t = "num" /\ last.offset.v >= 0

IdsOf(rows) == [i \in 1..Len(rows) |-> rows[i].id]

NameMatches(rows, search) == SelectSeq(rows, LAMBDA r : ContainsCI(r.name, search))

\* every offset argument: null, NaN and the integers around the pages
AnyOffset == OffsetArgs \cup {NaN, Num(5), Num(PageSize + 1)}

\* C1: with a non-empty search term getUsers runs the search whatever the
\* offset: the call made returned the records and the newOffset that the same
\* search returns for every other offset, null included
C1_SearchIgnoresOffset ==
  (Fresh /\ last.search # <<>>) =>
    /\ last.storeCall = "search"
    /\ \A o \in AnyOffset :
         LET other == getUsers(store, storeOver, FALSE, last.search, o)
         IN  /\ other.status = "ok"
             /\ other.users = last.users
             /\ other.newOffset = last.newOffset

C1_Witness ==
  /\ Fresh
  /\ last.search = <<"a">>
  /\ last.offset = Num(PageSize)
  /\ Len(store) = PageSize + 5
  /\ Len(last.users) > 0
  /\ last.users[1].id = 1

\* C2: a search returns at most 1000 records and a null newOffset, however
\* many records match
C2_SearchCapped ==
  (last.status = "ok" /\ last.search # <<>>) =>
    (Len(last.users) <= SearchLimit /\ last.newOffset = Null)

C2_Witness ==
  /\ Fresh
  /\ last.search = <<"a">>
  /\ Len(NameMatches(store, last.search)) > SearchLimit
  /\ Len(last.users) = SearchLimit

\* C3: a search returns exactly the first 1000 records, in table order, whose
\* name contains the search term as a case-insensitive substring
C3_SearchIsSubstringMatch ==
  (Fresh /\ last.search # <<>>) =>
    last.users = Take(NameMatches(store, last.search), SearchLimit)

\* C4: with an empty search term and offset k >= 0, a table of at least k+20
\* records gives 20 records and newOffset k+20; a table of exactly k+m records,
\* 0 <= m < 20, gives m records and newOffset null
C4_PageSizeAndCursor ==
  Paged =>
    LET k == last.offset.v
        N == Len(store)
    IN  /\ N >= k + PageSize =>
             (Len(last.users) = PageSize /\ last.newOffset = Num(k + PageSize))
        /\ (N >= k /\ N < k + PageSize) =>
             (Len(last.users) = N - k /\ last.newOffset = Null)

C4_Witness ==
  /\ Paged
  /\ last.offset = Num(PageSize)
  /\ Len(store) = PageSize + 5
  /\ Len(last.users) = 5
  /\ last.newOffset = Null

\* C5: a page read at offset k returns the records at positions
\* k+1 .. min(k+20, N) of the table, in table order
C5_PageIsSlice ==
  Paged =>
    LET k == last.offset.v
    IN  last.users = [i \in 1..(Min(k + PageSize, Len(store)) - Min(k, Len(store))) |->
                        store[k + i]]

C5_Witness ==
  /\ Paged
  /\ IdsOf(store) = [i \in 1..(PageSize + 5) |-> i]
  /\ last.offset = Num(PageSize)
  /\ IdsOf(last.users) = [i \in 1..5 |-> PageSize + i]

\* C6: in pagination mode newOffset is offset+20 when the store returned 20
\* or more records, more than the 20 asked for included, and null when it
\* returned fewer
C6_CursorFromPageLength ==
  (last.status = "ok" /\ last.storeCall = "page") =>
    /\ Len(last.users) >= PageSize => last.newOffset = Num(last.offset.v + PageSize)
    /\ Len(last.users) < PageSize => last.newOffset = Null

C6_Witness ==
  /\ last.status = "ok"
  /\ last.storeCall = "page"
  /\ storeOver > 0
  /\ Len(last.users) > PageSize
  /\ last.newOffset = Num(last.offset.v + PageSize)

\* C7: with an empty search term and offset null getUsers returns no records
\* and a null newOffset without reading the table (so no store fault can fail it)
C7_NullOffsetIsTerminal ==
  (last.status # "init" /\ last.search = <<>> /\ last.offset = Null) =>
    /\ last.status = "ok"
    /\ last.users = <<>>
    /\ last.newOffset = Null
    /\ last.storeCall = "none"

C7_Witness ==
  /\ last.status = "ok"
  /\ last.search = <<>>
  /\ last.offset = Null
  /\ last.storeCall = "none"
  /\ Len(store) >= PageSize

\* C8: a request without an offset parameter, and with q absent or empty,
\* is listed as the first page: getUsers is called with offset 0 and the page
\* shows the first 20 records of the table
C8_AbsentOffsetIsFirstPage ==
  (page.status = "ok" /\ page.ver = ver /\ page.offset = Absent
     /\ page.q \in {Absent, Str(<<>>)}) =>
    /\ last.offset = Num(0)
    /\ page.users = Take(store, PageSize)
    /\ page.newOffset = (IF Len(store) >= PageSize THEN Num(PageSize) ELSE Null)

C8_Witness ==
  /\ page.status = "ok"
  /\ page.ver = ver
  /\ page.offset = Absent
  /\ page.q = Absent
  /\ Len(store) > PageSize
  /\ IdsOf(page.users) = IdsOf(Take(store, PageSize))
  /\ page.newOffset = Num(PageSize)

C10_DeletedNeverListed ==
  [][last' # last =>
       \A i \in 1..Len(last'.users) : last'.users[i].id \notin deletedOk]_vars

\* ---- properties of the delete action --------------------------------------------------
Range(f) == {f[i] : i \in DOMAIN f}

\* this step is a call of deleteUser
DeleteStep ==
  /\ action'.name = "deleteUser"
  /\ (revalidations' # revalidations \/ errorsLogged' # errorsLogged)

DeleteFailed(a) == a.name = "deleteUser" /\ "deleteUserById:throw" \in Range(a.effects)

DeleteDone(a) == a.name = "deleteUser" /\ "deleteUserById" \in Range(a.effects)

ListingOf(rows) ==
  [q \in SearchTerms \X OffsetArgs |-> getUsers(rows, storeOver, FALSE, q[1], q[2])]

\* C11: a deleteUser whose store delete fails leaves the table as it was: every
\* getUsers query returns after the call what it returned before it
C11_FailedDeleteChangesNothing ==
  [][(DeleteStep /\ DeleteFailed(action')) =>
       (store' = store /\ ListingOf(store') = ListingOf(store))]_vars

C11_Witness ==
  /\ DeleteFailed(action)
  /\ \E i \in 1..Len(store) : store[i].id = action.arg

\* C12: deleteUser calls revalidatePath only on the path where the store delete
\* returned without error; a failed store delete emits no invalidation
C12_NoInvalidationOnFailure ==
  [][DeleteStep =>
       /\ DeleteFailed(action') =>
            (revalidations' = revalidations /\ "revalidatePath" \notin Range(action'.effects))
       /\ revalidations' # revalidations => DeleteDone(action')]_vars

C12_Witness ==
  /\ DeleteFailed(action)
  /\ revalidations = 0
  /\ errorsLogged = 1

\* C13: when the store delete fails, deleteUser fails towards its caller: its
\* promise rejects, it does not complete normally
C13_FailureReachesCaller ==
  DeleteFailed(action) => action.result = "rejected"

\* C14: a deleteUser whose store delete succeeded emits exactly one
\* invalidation, and emits it after the store delete has returned
C14_OneInvalidationAfterDelete ==
  [][(DeleteStep /\ DeleteDone(action')) =>
       /\ revalidations' = revalidations + 1
       /\ action'.effects = <<"deleteUserById", "revalidatePath">>]_vars

C14_Witness ==
  /\ DeleteDone(action)
  /\ revalidations = 1
  /\ action.arg \in deletedOk
  /\ \A i \in 1..Len(store) : store[i].id # action.arg
  /\ Len(store) > 0

\* ---- the incremental load trigger ------------------------------------------------------
Connected == {i \in 1..Len(observers) : observers[i].connected}

\* the callbacks invoked by the step
NewCalls == SubSeq(calls', Len(calls) + 1, Len(calls'))

\* the cleanup of the unmounted component has run
TornDown == mounts > 0 /\ ~mounted /\ ~effectPending

\* C15: each entry of the sentinel into the proximity zone invokes the load
\* callback exactly once: never a second time while the sentinel stays visible,
\* and once as soon as an observation that has reported the entry exists.
C15_OncePerEntry ==
  /\ visitCalls <= 1
  /\ (visible /\ \E i \in Connected : observers[i].prev = "in") => visitCalls >= 1

C17_NewestCallbackOnly ==
  [][/\ \A k \in 1..Len(NewCalls) : NewCalls[k] = onIntersect
     /\ (mounted' /\ ~effectPending') =>
          \A i \in 1..Len(observers') :
            observers'[i].connected <=> (i = Len(observers'))]_vars

\* ---- the next page button and the search field -------------------------------------------
NextInFlight == Cardinality({i \in 1..Len(inflight) : inflight[i].by = "next"})

\* C18: at most one next-page navigation is in flight at any time.
C18_OneNextPageRequest == NextInFlight <= 1

\* the step runs the effect of Search: the value changed, or Search mounted
EffectStep == value' # value \/ (~searchMounted /\ searchMounted')

\* the q of the URL of the latest navigation
LatestQ(navs) == ParamGet(ParseSearch(navs[Len(navs)].url), Q)

\* C19: when the effect of Search runs, an undefined value starts no navigation
\* and leaves the location alone; any other value starts one navigation, whose
\* URL has no q for the empty string and has q equal to the value, character by
\* character, otherwise.
C19_SearchSetsQ ==
  [][EffectStep =>
       IF value' = Absent
       THEN inflight' = inflight /\ location' = location
       ELSE /\ Len(inflight') = Len(inflight) + 1
            /\ inflight'[Len(inflight')].by = "search"
            /\ LatestQ(inflight') = IF value'.s = <<>> THEN Absent ELSE value']_vars

C19_Witness ==
  /\ value = Str(<<" ", "a", " ">>)
  /\ inflight # <<>>
  /\ inflight[Len(inflight)].by = "search"
  /\ LatestQ(inflight) = value

\* C20: isPending is true exactly while a navigation that Search started is in
\* flight; once true it becomes false again; and while Search is mounted it
\* turns true only in a step that changes the value.
C20_PendingWhileInFlight ==
  /\ [](isPending <=> SearchInFlight(inflight))
  /\ (isPending ~> ~isPending)
  /\ [][(searchMounted /\ ~isPending /\ isPending') => value' # value]_vars

C20_Witness ==
  /\ inputs > 0
  /\ value # Absent
  /\ value.s # <<>>
  /\ inflight = <<>>
  /\ ~isPending
  /\ ParamGet(ParseSearch(location), Q) = value

\* ---- the query the page is rendered for -----------------------------------------------------
\* the searchParams.q that the value of Search stands for
QueryOf(v) == IF v = Absent \/ v.s = <<>> THEN Absent ELSE v

\* C21: once every navigation has settled, the page is the one rendered for the
\* latest value of the search field, not for an earlier query.
C21_LatestInputWins ==
  (searchMounted /\ inflight = <<>> /\ value # Absent) => page.q = QueryOf(value)

\* ---- store faults ---------------------------------------------------------------------------
\* C22: a getUsers call that reaches the store while the store fails ends in an
\* error, for every query; and a call that returned normally returned what the
\* table held, never a listing made up for a failed read.
C22_FaultIsError ==
  /\ \A search \in SearchTerms, offset \in OffsetArgs :
       LET res == getUsers(store, storeOver, TRUE, search, offset)
       IN  (search # <<>> \/ offset # Null) => res.status = "error"
  /\ Fresh =>
       LET res == getUsers(store, storeOver, FALSE, last.search, last.offset)
       IN  last.users = res.users /\ last.newOffset = res.newOffset

C22_Witness ==
  /\ last.status = "error"
  /\ last.storeCall = "search"
  /\ \E i \in 1..Len(store) : ILike(<<"%">> \o last.search \o <<"%">>, store[i].name)

\* ---- the view after a delete ------------------------------------------------------------------
\* C23: a deleteUser call whose store delete failed is followed by no reload: the
\* document, with the listing it shows, stays as it was.
C23_NoReloadAfterFailedDelete ==
  [][(DeleteStep /\ DeleteFailed(action')) =>
       (reloads' = reloads /\ searchMounted' = searchMounted /\ page' = page)]_vars

\* ---- the offset at the query boundary ---------------------------------------------------------
\* C24: the offset IndexPage hands to getUsers is null or a non-negative integer,
\* whatever the offset parameter of the request is.
C24_OffsetWellFormed ==
  page.status # "init" =>
    (last.offset = Null \/ (last.offset.t = "num" /\ last.offset.v >= 0))

\* ---- getUsers only reads -----------------------------------------------------------------------
\* C25: a getUsers call, in search mode, in page mode or with a null offset,
\* leaves the rows of the table and their order as they were, assigns no id
\* and emits no invalidation.
C25_PureRead ==
  [][last' # last =>
       /\ store' = store
       /\ nextId' = nextId
       /\ ver' = ver
       /\ deletedOk' = deletedOk
       /\ revalidations' = revalidations]_vars

C25_Witness ==
  /\ last.status = "ok"
  /\ last.storeCall = "search"
  /\ Len(last.users) > 0
  /\ Len(store) = MaxStore
  /\ ver = 0
  /\ revalidations = 0

\* ---- reading the whole table page by page ------------------------------------------------------
Count(seq, x) == Cardinality({i \in 1..Len(seq) : seq[i] = x})

\* C26: a walk from offset 0 that follows newOffset, with no change of the table
\* on its way, ends (newOffset null) after at most Len(store) \div 20 + 1 reads,
\* and the pages it read, in order, are the whole table, each row once.
C26_WalkCoversTable ==
  /\ [](walk.ver = ver => walk.reads <= (Len(store) \div PageSize) + 1)
  /\ []((WalkDone /\ walk.ver = ver) => walk.ids = IdSeq(store))
  /\ <>WalkDone

C26_Witness ==
  /\ WalkDone
  /\ walk.ver = ver
  /\ Len(store) = 2 * PageSize
  /\ walk.reads = 3
  /\ walk.ids = IdSeq(store)

\* C27: when rows are deleted between the reads of a walk, every row that is in
\* the table during the whole walk is in exactly one of its pages.
C27_StableUnderDeletes ==
  WalkDone => \A i \in 1..Len(store) : Count(walk.ids, store[i].id) = 1

\* ---- the Next Page button ------------------------------------------------------------------------
\* the offset parameter of the URL of a navigation
OffsetOf(nav) == ParamGet(ParseSearch(nav.url), OFFSET)

\* C28: on a loaded page the Next Page button can be clicked exactly when the
\* newOffset the page got from getUsers is not null; it cannot be for the result
\* of a search; and the URL of every navigation it starts has a decimal number
\* as its offset, never the text null.
C28_NextPageOnlyWithOffset ==
  /\ (searchMounted /\ page.status = "ok" /\ Len(inflight) < MaxInflight) =>
       ((ENABLED OnClick) <=> page.newOffset # Null)
  /\ (page.status = "ok" /\ SearchArg(page.q) # <<>>) => ~ENABLED OnClick
  /\ \A i \in 1..Len(inflight) :
       inflight[i].by = "next" =>
         /\ OffsetOf(inflight[i]) # Absent
         /\ OffsetOf(inflight[i]).s # <<>>
         /\ AllDigits(OffsetOf(inflight[i]).s)

C28_Witness ==
  /\ page.status = "ok"
  /\ page.q = Absent
  /\ page.newOffset = Num(PageSize)
  /\ inflight # <<>>
  /\ inflight[Len(inflight)].by = "next"
  /\ OffsetOf(inflight[Len(inflight)]) = Str(<<"2", "0">>)

\* ---- the other query parameters ------------------------------------------------------------------
\* the parameters of a query string other than q, in their order
OtherParams(search) == ParamDelete(ParseSearch(search), Q)

\* C29: the URL that the effect of Search navigates to has the parameters of the
\* current location other than q, offset among them, with the values they had;
\* and when every navigation has settled the page shown is the one for the
\* offset of the location, so that a term set and cleared again on the page of
\* offset k leaves the page of offset k.
C29_SearchKeepsOffset ==
  /\ [][(EffectStep /\ Len(inflight') > Len(inflight)) =>
          OtherParams(inflight'[Len(inflight')].url) = OtherParams(location)]_vars
  /\ []((searchMounted /\ inflight = <<>>) =>
          /\ page.offset = ParamGet(ParseSearch(location), OFFSET)
          /\ page.q = ParamGet(ParseSearch(location), Q))

C29_Witness ==
  /\ inputs = 2
  /\ value = Str(<<>>)
  /\ inflight = <<>>
  /\ page.status = "ok"
  /\ page.q = Absent
  /\ page.offset = Str(<<"2", "0">>)
  /\ Len(page.users) = 5
  /\ page.users[1].id = PageSize + 1

\* ---- the hook comes to rest ----------------------------------------------------------------------
\* no effect is pending and no render is asked for
Quiescent == ~effectPending /\ (mounted => observerSet = observer)

\* C30: after a mount or a change of the callback the hook comes to rest: the
\* render that setObserver asks for does not run the effect again, so no render
\* or effect stays due and observers are not created without end; at most one
\* observer is connected at any time; and with one callback identity for all
\* renders one observer is created per mount.
C30_Quiescence ==
  /\ [][Rerender => ~effectPending']_vars
  /\ ~Quiescent ~> Quiescent
  /\ [](Cardinality(Connected) <= 1)
  /\ []((stable /\ onIntersect <= 1) => Len(observers) <= mounts)

====
